---- MODULE Spec2Model ----
(***************************************************************************)
(* The RoseHipLang preprocessor (rhl_parser/src/lib.rs, module             *)
(* preprocessing) as a state machine.                                      *)
(*                                                                         *)
(* Text is a sequence of one-character strings, so that starts_with,       *)
(* split_whitespace, split_once, replace and lines are computed on         *)
(* characters as the source computes them.  A Preprocessor owns lines,     *)
(* out, defs and index; `#with` runs a child Preprocessor to completion    *)
(* inside the parent's run, so the sessions alive at one time form a call  *)
(* stack: every per-session variable is a sequence indexed by call depth,  *)
(* the running session last.                                               *)
(***************************************************************************)
EXTENDS Integers, Sequences, FiniteSets, TLC

(***************************************************************************)
(* Bounds of the model.                                                    *)
(***************************************************************************)
\* the longest top-level input, in lines
MaxLines == 4
\* the deepest nesting of sessions (1 = no `#with` child may start)
MaxDepth == 2
\* how many scan iterations that leave the whole state unchanged are followed
MaxSpin == 2

(***************************************************************************)
(* Characters and strings.                                                 *)
(***************************************************************************)
SP == " "
LF == "\n"
CR == "\r"
HASH == "#"
DOLLAR == "$"

\* char::is_whitespace, on the characters the model uses
IsWhitespace(c) == c \in {SP, LF, CR, "\t"}

\* str::starts_with
StartsWith(s, p) ==
    /\ Len(s) >= Len(p)
    /\ SubSeq(s, 1, Len(p)) = p

\* the directive names the dispatcher and the skip scan compare against
KwDefine   == <<"#", "d", "e", "f", "i", "n", "e">>
KwUndefine == <<"#", "u", "n", "d", "e", "f", "i", "n", "e">>
KwIfdef    == <<"#", "i", "f", "d", "e", "f">>
KwIfundef  == <<"#", "i", "f", "u", "n", "d", "e", "f">>
KwElse     == <<"#", "e", "l", "s", "e">>
KwEndif    == <<"#", "e", "n", "d", "i", "f">>
KwWith     == <<"#", "w", "i", "t", "h">>

\* Option<String>: None is the empty tuple, Some(v) the one-element tuple
None == << >>
Some(v) == <<v>>
IsSome(o) == Len(o) = 1
Unwrap(o) == o[1]

RECURSIVE SplitWhitespaceFrom(_, _, _)
\* the words of s from position i on; cur is the word being read
SplitWhitespaceFrom(s, i, cur) ==
    IF i > Len(s)
    THEN IF cur = << >> THEN << >> ELSE <<cur>>
    ELSE IF IsWhitespace(s[i])
         THEN IF cur = << >>
              THEN SplitWhitespaceFrom(s, i + 1, << >>)
              ELSE <<cur>> \o SplitWhitespaceFrom(s, i + 1, << >>)
         ELSE SplitWhitespaceFrom(s, i + 1, Append(cur, s[i]))

\* str::split_whitespace, collected: the maximal runs of non-whitespace
SplitWhitespace(s) == SplitWhitespaceFrom(s, 1, << >>)

\* the k-th call of words.next(): Some(word) or None
NextWord(words, k) == IF k <= Len(words) THEN Some(words[k]) ELSE None

\* the positions of c in s
Positions(s, c) == {i \in 1..Len(s) : s[i] = c}

\* minimum of a non-empty set of integers
Min(S) == CHOOSE x \in S : \A y \in S : x <= y

\* str::split_once(" "): None, or Some(<<before, after>>) around the first space
SplitOnceSpace(s) ==
    IF Positions(s, SP) = {}
    THEN None
    ELSE LET p == Min(Positions(s, SP))
         IN  Some(<<SubSeq(s, 1, p - 1), SubSeq(s, p + 1, Len(s))>>)

RECURSIVE ReplaceFrom(_, _, _, _)
\* str::replace from position i on: non-overlapping matches, left to right
ReplaceFrom(s, i, from, to) ==
    IF i > Len(s)
    THEN << >>
    ELSE IF from # << >> /\ i + Len(from) - 1 <= Len(s)
            /\ SubSeq(s, i, i + Len(from) - 1) = from
         THEN to \o ReplaceFrom(s, i + Len(from), from, to)
         ELSE <<s[i]>> \o ReplaceFrom(s, i + 1, from, to)

\* a replace that stops after the first match, as str::replacen(from, to, 1)
ReplaceFirst(s, from, to) ==
    LET hits == {i \in 1..Len(s) :
                   /\ i + Len(from) - 1 <= Len(s)
                   /\ SubSeq(s, i, i + Len(from) - 1) = from}
    IN  IF hits = {} \/ from = << >> THEN s
        ELSE LET i == CHOOSE x \in hits : \A y \in hits : x <= y
             IN  SubSeq(s, 1, i - 1) \o to \o SubSeq(s, i + Len(from), Len(s))

\* str::replace(from, to), for a non-empty pattern
Replace(s, from, to) == ReplaceFrom(s, 1, from, to)

RECURSIVE LinesFrom(_, _, _)
\* str::lines from position i on; cur is the line being read
LinesFrom(s, i, cur) ==
    IF i > Len(s)
    THEN IF cur = << >> THEN << >> ELSE <<cur>>
    ELSE IF s[i] = LF
         THEN LET body == IF cur # << >> /\ cur[Len(cur)] = CR
                          THEN SubSeq(cur, 1, Len(cur) - 1)
                          ELSE cur
              IN  <<body>> \o LinesFrom(s, i + 1, << >>)
         ELSE LinesFrom(s, i + 1, Append(cur, s[i]))

\* str::lines, collected: split at "\n", a "\r" before it dropped, no last
\* empty line after a final terminator
Lines(s) == LinesFrom(s, 1, << >>)

(***************************************************************************)
(* The environment of `#with`: the compiled-in registry and the files.     *)
(***************************************************************************)
IdX == <<"X">>
ValH == <<"h">>
NameStd == <<"$", "s", "t", "d">>
PathF == <<"f">>

LnText      == <<"a", "X">>
LnOther     == <<"b">>
LnDefine    == KwDefine \o <<SP>> \o IdX
LnDefineVal == KwDefine \o <<SP>> \o IdX \o <<SP>> \o ValH
LnUndefine  == KwUndefine \o <<SP>> \o IdX
LnIfdef     == KwIfdef \o <<SP>> \o IdX
LnIfundef   == KwIfundef \o <<SP>> \o IdX
LnElse      == KwElse
LnEndif     == KwEndif
LnWithStd   == KwWith \o <<SP>> \o NameStd
LnWithFile  == KwWith \o <<SP>> \o PathF
LnWithNoLib == KwWith \o <<SP, DOLLAR>>
LnUnknown   == <<HASH, "x">>
LnTwice     == <<"X", "b", "X">>

\* the text of stdlib/std.rhl, which include_str! embeds: a module that
\* defines X for its own use and then uses it
StdRhl == LnDefineVal \o <<LF>> \o LnText \o <<LF>>

\* stdlib::BUILTIN_LIBS: the registry, one entry
BUILTIN_LIBS == [n \in {NameStd} |-> StdRhl]

\* what fs::read_to_string may return for a path: the text of some file (one
\* that uses X, defines it and uses it again; one that includes itself; one
\* with a stray closer), or an I/O error
FileTexts == { LnText \o <<LF>> \o LnDefineVal \o <<LF>> \o LnText \o <<LF>>,
               LnWithFile \o <<LF>>,
               LnEndif \o <<LF>> }
ReadToString(path) == {Some(t) : t \in FileTexts} \cup {None}

(***************************************************************************)
(* The state.                                                              *)
(***************************************************************************)
VARIABLES
    lines,            \* lines[d]: Vec<&str>, the session's input, split
    out,              \* out[d]: String, the session's output so far
    defs,             \* defs[d]: HashMap<String, Definition>
    index,            \* index[d]: usize, the cursor (0-based, as in the source)
    pc,               \* pc[d]: where the session's control is
    height,           \* height[d]: u16, the local of read_until_endif_or_else
    err,              \* err[d]: the Error a failed session returned
    trace,            \* trace[d]: history of the main loop's iterations
    spins,            \* history: scan iterations that changed nothing
    overflow_checks   \* whether the build panics on integer overflow, once met

vars == <<lines, out, defs, index, pc, height, err, trace, spins, overflow_checks>>

\* the running session is the deepest one
Depth == Len(pc)
Cur == Depth

\* self.lines[self.index]
CurLine == lines[Cur][index[Cur] + 1]
\* self.index < self.lines.len()
InRange == index[Cur] < Len(lines[Cur])

U16 == 65536

NoError == "none"

\* HashMap::insert, HashMap::remove, HashMap::contains_key
MapInsert(m, k, v) == [x \in DOMAIN m \cup {k} |-> IF x = k THEN v ELSE m[x]]
\* a removal that keeps the key and drops only its payload
MapClear(m, k) == [x \in DOMAIN m |-> IF x = k THEN None ELSE m[x]]
MapRemove(m, k) == [x \in DOMAIN m \ {k} |-> m[x]]
ContainsKey(m, k) == k \in DOMAIN m
EmptyMap == [x \in {} |-> None]

\* Preprocessor::new: the fields of a fresh session over a text
NewLines(input) == Lines(input)
NewOut == << >>
NewDefs == EmptyMap
NewIndex == 0

\* replace one field of the running session
Set(f, v) == [f EXCEPT ![Cur] = v]

\* history of one pass of the main loop: the cursor, the Definition Table and
\* the output it started with, and whether it called read_until_endif_or_else
Visit(scan) ==
    [at |-> index[Cur], defs |-> defs[Cur], out |-> out[Cur], scan |-> scan]
Traced(scan) == Set(trace, Append(trace[Cur], Visit(scan)))

(***************************************************************************)
(* The inputs.                                                             *)
(***************************************************************************)
\* the lines the inputs of Spec are made of: one line for every arm of the
\* dispatcher that the conditionals, the definitions and `#with` involve
Alphabet == { LnText, LnDefineVal, LnUndefine, LnIfdef, LnIfundef, LnElse,
              LnEndif, LnWithFile, LnUnknown }

SeqsUpTo(S, n) == UNION {[1..k -> S] : k \in 0..n}

RECURSIVE Unlines(_, _, _)
\* the lines joined into one text; every line but the last ends with eol, the
\* last one with last
Unlines(ls, eol, last) ==
    IF ls = << >> THEN << >>
    ELSE IF Len(ls) = 1 THEN ls[1] \o last
    ELSE ls[1] \o eol \o Unlines(Tail(ls), eol, last)

\* how an input ends its lines: "\n" between lines and nothing after the
\* last, or "\r\n" between lines and "\n" after the last
Endings == { [eol |-> <<LF>>, last |-> << >>], [eol |-> <<CR, LF>>, last |-> <<LF>>] }

Inputs(alphabet) ==
    { Unlines(ls, e.eol, e.last) : ls \in SeqsUpTo(alphabet, MaxLines), e \in Endings }

\* a session constructed over one of the given input texts
InitFrom(inputs) ==
    /\ \E input \in inputs : lines = <<NewLines(input)>>
    /\ out = <<NewOut>>
    /\ defs = <<NewDefs>>
    /\ index = <<NewIndex>>
    /\ pc = <<"new">>
    /\ height = <<0>>
    /\ err = <<NoError>>
    /\ trace = << << >> >>
    /\ spins = 0
    /\ overflow_checks = "unknown"

InitOver(alphabet) == InitFrom(Inputs(alphabet))

Init == InitOver(Alphabet)

(***************************************************************************)
(* Preprocessor::define and Preprocessor::run.                             *)
(***************************************************************************)
\* the keys and values an embedding caller passes to define before run
PublicKeys == {IdX}
PublicValues == {None}

\* define(key, value), called on a session that has not run yet
DefineCall ==
    /\ pc = <<"new">>
    /\ \E key \in PublicKeys, value \in PublicValues :
           defs' = <<MapInsert(defs[1], key, value)>>
    /\ UNCHANGED <<lines, out, index, pc, height, err, trace, spins, overflow_checks>>

\* the caller calls run
RunCall ==
    /\ pc = <<"new">>
    /\ pc' = <<"run">>
    /\ UNCHANGED <<lines, out, defs, index, height, err, trace, spins, overflow_checks>>

\* control is at the head of the main loop
AtLoop == pc[Cur] = "run"

\* the orders in which HashMap::iter may yield the entries of m
IterOrders(m) ==
    { o \in [1..Cardinality(DOMAIN m) -> DOMAIN m] :
        \A i, j \in DOMAIN o : i # j => o[i] # o[j] }

RECURSIVE ExpandFrom(_, _, _, _)
\* the substitution loop from the k-th entry of the iteration on
ExpandFrom(line, m, order, k) ==
    IF k > Len(order) THEN line
    ELSE LET key == order[k]
         IN  IF IsSome(m[key])
             THEN ExpandFrom(Replace(line, key, Unwrap(m[key])), m, order, k + 1)
             ELSE ExpandFrom(line, m, order, k + 1)

\* the line after every definition with a value has been substituted, in order
Expand(line, m, order) == ExpandFrom(line, m, order, 1)

\* a non-directive path that appends the expanded line twice
EmittedTwice(line, m, order) == Expand(line, m, order) \o Expand(line, m, order)

\* what the non-directive path appends to out for a line
Emitted(line, m, order) == Expand(line, m, order)

\* a non-directive path that appends and continues without moving the cursor
EmitInPlace ==
    /\ AtLoop /\ InRange
    /\ ~StartsWith(CurLine, <<HASH>>)
    /\ \E order \in IterOrders(defs[Cur]) :
           out' = Set(out, out[Cur] \o Emitted(CurLine, defs[Cur], order))
    /\ trace' = Traced(FALSE)
    /\ UNCHANGED <<lines, defs, index, pc, height, err, spins, overflow_checks>>

\* a line that does not start with '#': substituted, appended, cursor advanced
Emit ==
    /\ AtLoop /\ InRange
    /\ ~StartsWith(CurLine, <<HASH>>)
    /\ \E order \in IterOrders(defs[Cur]) :
           out' = Set(out, out[Cur] \o Emitted(CurLine, defs[Cur], order))
    /\ index' = Set(index, index[Cur] + 1)
    /\ trace' = Traced(FALSE)
    /\ UNCHANGED <<lines, defs, pc, height, err, spins, overflow_checks>>

\* the words of the current line, and words.next() by position
Words == SplitWhitespace(CurLine)
FirstWord == NextWord(Words, 1)
SecondWord == NextWord(Words, 2)
ThirdWord == NextWord(Words, 3)

\* the main loop is at a directive line whose first word is kw
Dispatch(kw) ==
    /\ AtLoop /\ InRange
    /\ StartsWith(CurLine, <<HASH>>)
    /\ FirstWord = Some(kw)

\* return Err(e) from run: nothing but the session's result changes
Fail(e) ==
    /\ pc' = Set(pc, "err")
    /\ err' = Set(err, e)
    /\ trace' = Traced(FALSE)
    /\ UNCHANGED <<lines, out, defs, index, height, spins, overflow_checks>>

\* the "#define" arm, then the loop's increment
Define ==
    /\ Dispatch(KwDefine)
    /\ IF ~IsSome(SecondWord)
       THEN Fail("DefineNoIdent")
       ELSE /\ defs' = Set(defs, MapInsert(defs[Cur], Unwrap(SecondWord), ThirdWord))
            /\ index' = Set(index, index[Cur] + 1)
            /\ trace' = Traced(FALSE)
            /\ UNCHANGED <<lines, out, pc, height, err, spins, overflow_checks>>

\* the "#undefine" arm, then the loop's increment
Undefine ==
    /\ Dispatch(KwUndefine)
    /\ IF ~IsSome(SecondWord)
       THEN Fail("UndefineNoIdent")
       ELSE /\ defs' = Set(defs, MapRemove(defs[Cur], Unwrap(SecondWord)))
            /\ index' = Set(index, index[Cur] + 1)
            /\ trace' = Traced(FALSE)
            /\ UNCHANGED <<lines, out, pc, height, err, spins, overflow_checks>>

\* self.defs.contains_key(ident), for the identifier the directive names
\* a test that takes an identifier without a payload for an absent one
TestedValued ==
    /\ IsSome(SecondWord)
    /\ ContainsKey(defs[Cur], Unwrap(SecondWord))
    /\ IsSome(defs[Cur][Unwrap(SecondWord)])
TestedDefined == IsSome(SecondWord) /\ ContainsKey(defs[Cur], Unwrap(SecondWord))

\* whether the "#ifdef" arm calls read_until_endif_or_else
IfdefSkips(defined) == defined
\* whether the "#ifundef" arm calls read_until_endif_or_else
IfundefSkips(defined) == ~defined

\* the body shared by the two conditional arms: the cursor moves past the
\* directive, then the skip scan starts or the arm ends
Conditional(skips, e) ==
    IF ~IsSome(SecondWord)
    THEN Fail(e)
    ELSE /\ index' = Set(index, index[Cur] + 1)
         /\ trace' = Traced(skips)
         /\ IF skips
            THEN /\ pc' = Set(pc, "scan")
                 /\ height' = Set(height, 0)
            ELSE /\ pc' = Set(pc, "incr")
                 /\ UNCHANGED height
         /\ UNCHANGED <<lines, out, defs, err, spins, overflow_checks>>

\* the "#ifdef" arm
Ifdef ==
    /\ Dispatch(KwIfdef)
    /\ Conditional(IfdefSkips(TestedDefined), "IfdefNoIdent")

\* the "#ifundef" arm
Ifundef ==
    /\ Dispatch(KwIfundef)
    /\ Conditional(IfundefSkips(TestedDefined), "IfundefNoIdent")

\* the "#else" arm: the skip scan starts with the cursor on the #else line
Else ==
    /\ Dispatch(KwElse)
    /\ pc' = Set(pc, "scan")
    /\ height' = Set(height, 0)
    /\ trace' = Traced(TRUE)
    /\ UNCHANGED <<lines, out, defs, index, err, spins, overflow_checks>>

\* the "#endif" arm
Endif ==
    /\ Dispatch(KwEndif)
    /\ Fail("UnexpectedEndif")

\* any other first word (a directive line always has a first word)
Invalid ==
    /\ AtLoop /\ InRange
    /\ StartsWith(CurLine, <<HASH>>)
    /\ FirstWord \notin {Some(KwDefine), Some(KwUndefine), Some(KwIfdef),
                         Some(KwIfundef), Some(KwElse), Some(KwEndif), Some(KwWith)}
    /\ Fail(IF IsSome(FirstWord) THEN "InvalidDirective" ELSE "NoFirstWord")

\* self.index += 1 at the end of the loop body, after a conditional arm
LoopIncrement ==
    /\ pc[Cur] = "incr"
    /\ index' = Set(index, index[Cur] + 1)
    /\ pc' = Set(pc, "run")
    /\ UNCHANGED <<lines, out, defs, height, err, trace, spins, overflow_checks>>

\* the loop condition fails: Ok(&self.out)
RunOk ==
    /\ AtLoop /\ ~InRange
    /\ pc' = Set(pc, "ok")
    /\ UNCHANGED <<lines, out, defs, index, height, err, trace, spins, overflow_checks>>

(***************************************************************************)
(* Preprocessor::read_until_endif_or_else, one action per loop iteration.  *)
(***************************************************************************)
InScan == pc[Cur] = "scan"

\* the text before the first space of the line, or the whole line
ScanDirective ==
    LET parts == SplitOnceSpace(CurLine)
    IN  IF IsSome(parts) THEN Unwrap(parts)[1] ELSE CurLine

\* the scan is at a directive line
ScanAt(kws) ==
    /\ InScan /\ InRange
    /\ StartsWith(CurLine, <<HASH>>)
    /\ ScanDirective \in kws

\* u16 arithmetic: whether h + d leaves the type, and the wrapped result
Overflows(h, d) == h + d < 0 \/ h + d >= U16
Wrapped(h, d) == (h + d) % U16

\* The build either panics on integer overflow (overflow-checks on, the debug
\* default) or wraps (off, the release default).  The setting is one fact
\* about the build: it is settled at the first overflow a run meets and
\* every later overflow of the run sees the same setting.
Builds == {"on", "off"}
Checks(overflow) ==
    IF overflow /\ overflow_checks = "unknown" THEN Builds ELSE {overflow_checks}

\* an overflowing operation in a build with overflow checks: the thread panics
Panic ==
    /\ pc' = Set(pc, "panic")
    /\ UNCHANGED <<lines, out, defs, index, height, err, trace, spins>>

\* the iteration ends by falling through to self.index += 1
ScanAdvance ==
    /\ index' = Set(index, index[Cur] + 1)
    /\ UNCHANGED pc

\* self.index += 1; return Ok(()): control is back in the arm that called,
\* before the main loop's own increment
ScanReturn ==
    /\ index' = Set(index, index[Cur] + 1)
    /\ pc' = Set(pc, "incr")

\* `continue` with nothing changed: the same iteration runs again
Stall ==
    /\ spins < MaxSpin
    /\ spins' = spins + 1
    /\ UNCHANGED <<lines, out, defs, index, pc, height, err, trace, overflow_checks>>

\* a line that does not start with '#': continue
ScanText ==
    /\ InScan /\ InRange
    /\ ~StartsWith(CurLine, <<HASH>>)
    /\ Stall

\* "#ifdef" and "#ifundef": height += 1
ScanOpen ==
    /\ ScanAt({KwIfdef, KwIfundef})
    /\ \E c \in Checks(Overflows(height[Cur], 1)) :
         /\ overflow_checks' = c
         /\ IF Overflows(height[Cur], 1) /\ c = "on"
            THEN Panic
            ELSE /\ height' = Set(height, Wrapped(height[Cur], 1))
                 /\ ScanAdvance
                 /\ UNCHANGED <<lines, out, defs, err, trace, spins>>

\* "#endif": height -= 1, and return if height <= 0
ScanEndif ==
    /\ ScanAt({KwEndif})
    /\ \E c \in Checks(Overflows(height[Cur], -1)) :
         /\ overflow_checks' = c
         /\ IF Overflows(height[Cur], -1) /\ c = "on"
            THEN Panic
            ELSE /\ height' = Set(height, Wrapped(height[Cur], -1))
                 /\ IF Wrapped(height[Cur], -1) <= 0 THEN ScanReturn ELSE ScanAdvance
                 /\ UNCHANGED <<lines, out, defs, err, trace, spins>>

\* "#else": return if height - 1 <= 0
ScanElse ==
    /\ ScanAt({KwElse})
    /\ \E c \in Checks(Overflows(height[Cur], -1)) :
         /\ overflow_checks' = c
         /\ IF Overflows(height[Cur], -1) /\ c = "on"
            THEN Panic
            ELSE /\ IF Wrapped(height[Cur], -1) <= 0 THEN ScanReturn ELSE ScanAdvance
                 /\ UNCHANGED <<lines, out, defs, height, err, trace, spins>>

\* any other directive: continue
ScanOther ==
    /\ InScan /\ InRange
    /\ StartsWith(CurLine, <<HASH>>)
    /\ ScanDirective \notin {KwIfdef, KwIfundef, KwEndif, KwElse}
    /\ Stall

\* the loop condition fails: Err(UnexpectedEof), which the arm's `?` returns
ScanEof ==
    /\ InScan /\ ~InRange
    /\ pc' = Set(pc, "err")
    /\ err' = Set(err, "UnexpectedEof")
    /\ UNCHANGED <<lines, out, defs, index, height, trace, spins, overflow_checks>>

(***************************************************************************)
(* The "#with" arm: a child session.                                       *)
(***************************************************************************)
\* the text `#with` resolves to: Some(src), or None with the error in why
Resolved(src) == [src |-> Some(src), why |-> NoError]
Unresolved(e) == [src |-> None, why |-> e]

\* the outcomes of resolving the current line's argument
Resolve ==
    IF ~IsSome(SecondWord)
    THEN {Unresolved("WithNoArg")}
    ELSE IF StartsWith(Unwrap(SecondWord), <<DOLLAR>>)
         THEN IF Unwrap(SecondWord) \in DOMAIN BUILTIN_LIBS
              THEN {Resolved(BUILTIN_LIBS[Unwrap(SecondWord)])}
              ELSE {Unresolved("NoStdlibModule")}
         ELSE { IF IsSome(r) THEN Resolved(Unwrap(r)) ELSE Unresolved("Io") :
                  r \in ReadToString(Unwrap(SplitOnceSpace(CurLine))[2]) }

\* a child that starts from the parent's Definition Table
ChildDefsInherited(parent) == parent

\* the Definition Table of the child session: Preprocessor::new(&src)
ChildDefs(parent) == NewDefs

\* the "#with" arm up to p.run(): the error returns, or the child starts
With ==
    /\ Dispatch(KwWith)
    /\ \E r \in Resolve :
         IF ~IsSome(r.src)
         THEN Fail(r.why)
         ELSE /\ Depth < MaxDepth
              /\ lines' = Append(lines, NewLines(Unwrap(r.src)))
              /\ out' = Append(out, NewOut)
              /\ defs' = Append(defs, ChildDefs(defs[Cur]))
              /\ index' = Append(index, NewIndex)
              /\ pc' = Append(Set(pc, "with"), "run")
              /\ height' = Append(height, 0)
              /\ err' = Append(err, NoError)
              /\ trace' = Append(Traced(FALSE), << >>)
              /\ UNCHANGED <<spins, overflow_checks>>

\* all but the running session
Pop(f) == SubSeq(f, 1, Depth - 1)

\* a splice that puts the child's text in front of the parent's
SplicedBefore(parentOut, childOut) == childOut \o parentOut

\* what the parent's out is after the child's Ok(text)
Spliced(parentOut, childOut) == parentOut \o childOut

\* a return that hands the child's Definition Table to the parent
DefsFromChild(parent, child) == child

\* the Definition Table of the parent after the child returned
DefsAfterWith(parent, child) == parent

\* the child returned Ok: push_str of its output, then the loop's increment
WithReturn ==
    /\ Depth > 1
    /\ pc[Cur] = "ok"
    /\ lines' = Pop(lines)
    /\ out' = [Pop(out) EXCEPT ![Depth - 1] = Spliced(out[Depth - 1], out[Depth])]
    /\ defs' = [Pop(defs) EXCEPT ![Depth - 1] = DefsAfterWith(defs[Depth - 1], defs[Depth])]
    /\ index' = [Pop(index) EXCEPT ![Depth - 1] = index[Depth - 1] + 1]
    /\ pc' = [Pop(pc) EXCEPT ![Depth - 1] = "run"]
    /\ height' = Pop(height)
    /\ err' = Pop(err)
    /\ trace' = Pop(trace)
    /\ UNCHANGED <<spins, overflow_checks>>

\* a parent that returns an error of its own in place of the child's
PropagatedAsInvalid(e) == "InvalidDirective"

\* the error the parent returns when the child's run returned Err(e)
Propagated(e) == e

\* the child returned Err: `?` returns it from the parent's run
WithError ==
    /\ Depth > 1
    /\ pc[Cur] = "err"
    /\ lines' = Pop(lines)
    /\ out' = Pop(out)
    /\ defs' = Pop(defs)
    /\ index' = Pop(index)
    /\ pc' = [Pop(pc) EXCEPT ![Depth - 1] = "err"]
    /\ height' = Pop(height)
    /\ err' = [Pop(err) EXCEPT ![Depth - 1] = Propagated(err[Depth])]
    /\ trace' = Pop(trace)
    /\ UNCHANGED <<spins, overflow_checks>>

(***************************************************************************)
(* The specification.                                                      *)
(***************************************************************************)
Next ==
    \/ DefineCall
    \/ RunCall
    \/ Emit
    \/ Define
    \/ Undefine
    \/ Ifdef
    \/ Ifundef
    \/ Else
    \/ Endif
    \/ Invalid
    \/ With
    \/ WithReturn
    \/ WithError
    \/ LoopIncrement
    \/ RunOk
    \/ ScanText
    \/ ScanOpen
    \/ ScanEndif
    \/ ScanElse
    \/ ScanOther
    \/ ScanEof

Spec == Init /\ [][Next]_vars

(***************************************************************************)
(* Inputs made of text and of `#define` / `#undefine` lines only: the      *)
(* skip scan and `#with` never start, so their actions are left out.       *)
(***************************************************************************)
SubstAlphabet == { LnText, LnTwice, LnDefine, LnDefineVal, LnUndefine, KwDefine }

InitSubst == InitOver(SubstAlphabet)

NextSubst ==
    \/ DefineCall
    \/ RunCall
    \/ Emit
    \/ Define
    \/ Undefine
    \/ RunOk

SpecSubst == InitSubst /\ [][NextSubst]_vars

\* run is one sequential call: once it is called, the loop keeps stepping
\* until it returns
RunSteps == Emit \/ Define \/ Undefine \/ RunOk

FairSpecSubst == SpecSubst /\ WF_vars(RunSteps)

(***************************************************************************)
(* Inputs with a faulting directive: up to MaxLines - 2 lines of Spec's    *)
(* alphabet, then a directive the dispatcher rejects, then at most one     *)
(* more line.                                                              *)
(***************************************************************************)
FaultLines == { KwDefine, KwUndefine, KwIfdef, KwIfundef, KwWith, LnWithNoLib,
                LnUnknown, LnEndif }

InputsFault ==
    { Unlines(prefix \o <<fault>> \o suffix, e.eol, e.last) :
        prefix \in SeqsUpTo(Alphabet, MaxLines - 2), fault \in FaultLines,
        suffix \in SeqsUpTo({LnText}, 1), e \in Endings }

InitFault == InitFrom(InputsFault)

SpecFault == InitFault /\ [][Next]_vars

(***************************************************************************)
(* What the properties speak of: the conditional structure of an input,    *)
(* read as the directive documentation describes it.                       *)
(***************************************************************************)
\* the directive name of a line, None for a line that is not a directive
NameOf(line) ==
    IF StartsWith(line, <<HASH>>) THEN NextWord(SplitWhitespace(line), 1) ELSE None

IsOpener(line) == NameOf(line) \in {Some(KwIfdef), Some(KwIfundef)}
IsEndif(line) == NameOf(line) = Some(KwEndif)
IsElse(line) == NameOf(line) = Some(KwElse)
IsText(line) == ~StartsWith(line, <<HASH>>)

RECURSIVE CloserFrom(_, _, _, _)
\* the first closer at nesting depth 0 from cursor position j on (an #endif,
\* or an #else when else is allowed), nested pairs passed over: the set of
\* its position, empty when there is none
CloserFrom(ls, j, depth, else) ==
    IF j >= Len(ls) THEN {}
    ELSE IF IsOpener(ls[j + 1]) THEN CloserFrom(ls, j + 1, depth + 1, else)
    ELSE IF IsEndif(ls[j + 1])
         THEN IF depth = 0 THEN {j} ELSE CloserFrom(ls, j + 1, depth - 1, else)
    ELSE IF IsElse(ls[j + 1]) /\ depth = 0 /\ else THEN {j}
    ELSE CloserFrom(ls, j + 1, depth, else)

\* the #endif or #else paired with the conditional at position i
MatchingCloser(ls, i) == CloserFrom(ls, i + 1, 0, TRUE)
\* the #endif paired with the conditional (or the #else) at position i
MatchingEndif(ls, i) == CloserFrom(ls, i + 1, 0, FALSE)

RECURSIVE DepthAt(_, _)
\* how many conditionals are open before position j
DepthAt(ls, j) ==
    IF j = 0 THEN 0
    ELSE DepthAt(ls, j - 1)
         + (IF IsOpener(ls[j]) THEN 1 ELSE IF IsEndif(ls[j]) THEN -1 ELSE 0)

\* every #endif closes an open conditional and every conditional is closed
WellNested(ls) ==
    /\ \A j \in 0..Len(ls) : DepthAt(ls, j) >= 0
    /\ DepthAt(ls, Len(ls)) = 0

Sessions == 1..Depth
Visits(d) == DOMAIN trace[d]
LineAt(d, i) == lines[d][i + 1]
\* the last pass of session d's main loop
LastVisit(d) == trace[d][Len(trace[d])]

(***************************************************************************)
(* The properties.                                                         *)
(***************************************************************************)

\* C1: every iteration of the skip scan that inspects a line advances the
\* cursor or ends the scan, whatever the line is.
C1_ScanAdvances ==
    [][ (pc[Cur] = "scan" /\ InRange)
          => (pc'[Cur] # "scan" \/ index'[Cur] > index[Cur]) ]_vars

\* the conditional at position i has its closer m, and its block holds a
\* complete inner conditional
HoldsInnerPair(ls, i) ==
    \E m \in MatchingCloser(ls, i) :
        \E j \in (i + 1)..(m - 1) :
            /\ IsOpener(ls[j + 1])
            /\ \E e \in MatchingEndif(ls, j) : e < m

\* C2: a skip scan started by a conditional whose block holds a complete
\* inner conditional returns only at the closer paired with the conditional
\* that started it, with the cursor just past that closer.
C2_ReturnsAtOwnCloser ==
    \A d \in Sessions :
        ( /\ pc[d] = "incr"
          /\ LastVisit(d).scan
          /\ IsOpener(LineAt(d, LastVisit(d).at))
          /\ HoldsInnerPair(lines[d], LastVisit(d).at) )
        => MatchingCloser(lines[d], LastVisit(d).at) = {index[d] - 1}

\* C3: the cursor of every session stays within 0..len(lines).
C3_CursorInRange ==
    \A d \in Sessions : 0 <= index[d] /\ index[d] <= Len(lines[d])

\* C4: after a conditional on the skip side that has a matching closer, the
\* main loop's next pass is at the line right after that closer (so no line
\* of the block is emitted or dispatched), and the scan neither fails nor
\* panics on the way.
C4_SkipThenResume ==
    \A d \in Sessions : \A k \in Visits(d) :
        LET v == trace[d][k]
        IN  (v.scan /\ IsOpener(LineAt(d, v.at)))
            => \A m \in MatchingCloser(lines[d], v.at) :
                 /\ k < Len(trace[d]) => trace[d][k + 1].at = m + 1
                 /\ (k = Len(trace[d]) /\ pc[d] = "run") => index[d] = m + 1
                 /\ k = Len(trace[d]) => pc[d] \notin {"err", "panic"}

\* C5: a session that started a skip scan for a conditional with no matching
\* closer does not return Ok.
C5_UnterminatedFails ==
    \A d \in Sessions : \A k \in Visits(d) :
        LET v == trace[d][k]
        IN  ( /\ v.scan
              /\ IsOpener(LineAt(d, v.at))
              /\ MatchingCloser(lines[d], v.at) = {} )
            => pc[d] # "ok"

\* the #endif at position e closes a conditional opened before it
ClosesConditional(ls, e) ==
    \E i \in 0..(e - 1) : IsOpener(ls[i + 1]) /\ MatchingEndif(ls, i) = {e}

\* C6: in a well-nested input, the "unexpected #endif" error is never raised
\* at an #endif that closes a conditional.
C6_MatchedEndifConsumed ==
    \A d \in Sessions :
        ( /\ pc[d] = "err"
          /\ err[d] = "UnexpectedEndif"
          /\ WellNested(lines[d]) )
        => ~ClosesConditional(lines[d], index[d])

\* the identifier a conditional directive line names
IdentOf(line) == Unwrap(NextWord(SplitWhitespace(line), 2))

\* the documented test of a conditional: `#ifdef` keeps its first branch if
\* the identifier is defined, `#ifundef` if it is not
DocumentedKeep(line, defined) ==
    IF NameOf(line) = Some(KwIfdef)
    THEN IdentOf(line) \in defined
    ELSE IdentOf(line) \notin defined

\* C7: a line the main loop emits from the first branch of a dispatched
\* conditional is emitted only if the documented test held when the
\* conditional was dispatched, and a line emitted from the branch after the
\* paired #else only if it did not.
C7_DocumentedPolarity ==
    \A d \in Sessions : \A k \in Visits(d) : \A k2 \in Visits(d) :
        LET v == trace[d][k]
            w == trace[d][k2]
        IN  ( /\ k < k2
              /\ IsOpener(LineAt(d, v.at))
              /\ IsSome(NextWord(SplitWhitespace(LineAt(d, v.at)), 2))
              /\ IsText(LineAt(d, w.at)) )
            => \A m \in MatchingCloser(lines[d], v.at) :
                 /\ (v.at < w.at /\ w.at < m)
                      => DocumentedKeep(LineAt(d, v.at), DOMAIN v.defs)
                 /\ IsElse(LineAt(d, m))
                      => \A e \in MatchingEndif(lines[d], m) :
                           (m < w.at /\ w.at < e)
                             => ~DocumentedKeep(LineAt(d, v.at), DOMAIN v.defs)

\* the main loop's k-th pass is at an #else that closes the first branch of
\* a conditional the loop dispatched on the keep side
ElseOfKeptBranch(d, k) ==
    /\ IsElse(LineAt(d, trace[d][k].at))
    /\ \E k0 \in 1..(k - 1) :
         /\ IsOpener(LineAt(d, trace[d][k0].at))
         /\ ~trace[d][k0].scan
         /\ MatchingCloser(lines[d], trace[d][k0].at) = {trace[d][k].at}

\* C8: after the main loop dispatches the #else of a kept branch whose
\* conditional has its #endif, the loop's next pass is at the line right
\* after that #endif, and the session neither fails nor panics on the way.
C8_ElseDiscardsAlternate ==
    \A d \in Sessions : \A k \in Visits(d) :
        ElseOfKeptBranch(d, k)
        => \A m \in MatchingEndif(lines[d], trace[d][k].at) :
             /\ k < Len(trace[d]) => trace[d][k + 1].at = m + 1
             /\ (k = Len(trace[d]) /\ pc[d] = "run") => index[d] = m + 1
             /\ k = Len(trace[d]) => pc[d] \notin {"err", "panic"}

\* no line of the session is a directive and no definition has a value
PlainSession(d) ==
    /\ \A i \in DOMAIN lines[d] : IsText(lines[d][i])
    /\ \A key \in DOMAIN defs[d] : ~IsSome(defs[d][key])

\* C9: a session without directive lines and without applicable definitions
\* returns its lines unchanged, in order, each still ended or separated by a
\* line terminator.
C9_PassThrough ==
    \A d \in Sessions :
        (pc[d] = "ok" /\ PlainSession(d))
        => out[d] \in { Unlines(lines[d], <<LF>>, << >>),
                        Unlines(lines[d], <<LF>>, <<LF>>) }

\* the identifiers that the `#define` lines session d's main loop has
\* dispatched name
OwnDefines(d) ==
    { IdentOf(LineAt(d, trace[d][k].at)) :
        k \in { k \in Visits(d) :
                  /\ NameOf(LineAt(d, trace[d][k].at)) = Some(KwDefine)
                  /\ IsSome(NextWord(SplitWhitespace(LineAt(d, trace[d][k].at)), 2)) } }

\* the last pass of session d's main loop was at a `#with` line
LastWasWith(d) ==
    /\ trace[d] # << >>
    /\ NameOf(LineAt(d, LastVisit(d).at)) = Some(KwWith)

\* C10: a child session of `#with` has no definition but those its own text
\* made, whatever the parent has defined; and from the dispatch of `#with`
\* until the parent's next pass (while the child runs and after it returned)
\* the parent's Definition Table is the one it had at the dispatch.
C10_WithIsolation ==
    /\ \A d \in Sessions : d > 1 => DOMAIN defs[d] \subseteq OwnDefines(d)
    /\ \A d \in Sessions : LastWasWith(d) => defs[d] = LastVisit(d).defs

\* C10 witness: a parent that held a valueless X spliced a child that used X,
\* defined X as h and used it again, and still holds X valueless; then it
\* defined X as h itself and the same child's first use of X came out
\* unsubstituted again.
C10_Witness ==
    /\ Depth = 1
    /\ pc[1] = "run"
    /\ Len(trace[1]) = 3
    /\ lines[1] = <<LnWithFile, LnDefineVal, LnWithFile>>
    /\ trace[1][1].defs = [k \in {IdX} |-> None]
    /\ trace[1][2].defs = [k \in {IdX} |-> None]
    /\ trace[1][3].defs = [k \in {IdX} |-> Some(ValH)]
    /\ defs[1] = [k \in {IdX} |-> Some(ValH)]
    /\ index[1] = 3
    /\ out[1] = <<"a", "X", "a", "h", "a", "X", "a", "h">>

\* a directive line the dispatcher rejects whatever the session's state: an
\* unknown name, a missing argument, an #endif, an unknown stdlib module
StaticFault(line) ==
    /\ StartsWith(line, <<HASH>>)
    /\ LET second == NextWord(SplitWhitespace(line), 2)
       IN  \/ NameOf(line) \notin {Some(KwDefine), Some(KwUndefine), Some(KwIfdef),
                                   Some(KwIfundef), Some(KwElse), Some(KwEndif),
                                   Some(KwWith)}
           \/ NameOf(line) = Some(KwEndif)
           \/ /\ NameOf(line) \in {Some(KwDefine), Some(KwUndefine), Some(KwIfdef),
                                   Some(KwIfundef), Some(KwWith)}
              /\ ~IsSome(second)
           \/ /\ NameOf(line) = Some(KwWith)
              /\ IsSome(second)
              /\ StartsWith(Unwrap(second), <<DOLLAR>>)
              /\ Unwrap(second) \notin DOMAIN BUILTIN_LIBS

\* a pass at a faulting directive is the session's last: the session has
\* failed, with the cursor and the output the pass started with
AbortsAtFault ==
    \A d \in Sessions : \A k \in Visits(d) :
        StaticFault(LineAt(d, trace[d][k].at))
        => /\ k = Len(trace[d])
           /\ pc[d] = "err"
           /\ err[d] # NoError
           /\ index[d] = trace[d][k].at
           /\ out[d] = trace[d][k].out

\* a failed session has appended nothing since its last pass started
FailedAppendsNothing ==
    \A d \in Sessions :
        pc[d] = "err" => (err[d] # NoError /\ out[d] = LastVisit(d).out)

\* the only step of a failed session is its parent's returning the same error,
\* with the parent's cursor and output as they were
FailureOnlyPropagates ==
    pc[Cur] = "err"
    => /\ Depth > 1
       /\ Len(pc') = Depth - 1
       /\ pc'[Depth - 1] = "err"
       /\ err'[Depth - 1] = err[Depth]
       /\ out'[Depth - 1] = out[Depth - 1]
       /\ index'[Depth - 1] = index[Depth - 1]
       /\ defs'[Depth - 1] = defs[Depth - 1]
       /\ trace'[Depth - 1] = trace[Depth - 1]

\* C11: run returns the error at the first faulting directive it dispatches;
\* nothing is processed or appended after it, and a parent returns a child's
\* error unchanged.
C11_FirstFaultAborts ==
    /\ [](AbortsAtFault /\ FailedAppendsNothing)
    /\ [][FailureOnlyPropagates]_vars

\* C11 witness: a parent that emitted a line, then included a text whose
\* session failed at an #endif, has failed with that error, with the line
\* after the #with untouched.
C11_Witness ==
    /\ Depth = 1
    /\ lines[1] = <<LnText, LnWithFile, LnEndif, LnText>>
    /\ pc[1] = "err"
    /\ err[1] = "UnexpectedEndif"
    /\ index[1] = 1
    /\ out[1] = LnText

\* what session d's output gained during the k-th pass of its main loop
OutAfter(d, k) == IF k < Len(trace[d]) THEN trace[d][k + 1].out ELSE out[d]
Appended(d, k) ==
    SubSeq(OutAfter(d, k), Len(trace[d][k].out) + 1, Len(OutAfter(d, k)))

RECURSIVE EachReplaced(_, _, _)
\* the line with every character c replaced by the text to
EachReplaced(line, c, to) ==
    IF line = << >> THEN << >>
    ELSE (IF Head(line) = c THEN to ELSE <<Head(line)>>)
         \o EachReplaced(Tail(line), c, to)

\* the k-th pass of session d is at a `#define` or `#undefine` line naming id
Redefines(d, k, id) ==
    /\ NameOf(LineAt(d, trace[d][k].at)) \in {Some(KwDefine), Some(KwUndefine)}
    /\ NextWord(SplitWhitespace(LineAt(d, trace[d][k].at)), 2) = Some(id)

\* the k-th pass of session d is at a `#define` line naming id, and no later
\* pass before the k2-th is at a `#define` or `#undefine` naming it
DefinedSince(d, k, k2, id) ==
    /\ k < k2
    /\ NameOf(LineAt(d, trace[d][k].at)) = Some(KwDefine)
    /\ NextWord(SplitWhitespace(LineAt(d, trace[d][k].at)), 2) = Some(id)
    /\ \A j \in (k + 1)..(k2 - 1) : ~Redefines(d, j, id)

\* C12: a non-directive line reached after `#define X` (no payload) is
\* appended with its X left as they are; after `#define X h` it is appended
\* with every X replaced by h; the `#define` line itself appends nothing.
C12_SubstitutionByPayload ==
    \A d \in Sessions : \A k \in Visits(d) : \A k2 \in Visits(d) :
        LET line == LineAt(d, trace[d][k].at)
            payload == NextWord(SplitWhitespace(line), 3)
            text == LineAt(d, trace[d][k2].at)
        IN  (DefinedSince(d, k, k2, IdX) /\ IsText(text))
            => /\ Appended(d, k) = << >>
               /\ Appended(d, k2) =
                    IF IsSome(payload)
                    THEN EachReplaced(text, IdX[1], Unwrap(payload))
                    ELSE text

\* C12 witness: after `#define X h` the line XbX came out as hbh, and after
\* `#define X` the same line came out unchanged.
C12_Witness ==
    /\ Depth = 1
    /\ pc[1] = "ok"
    /\ lines[1] = <<LnDefineVal, LnTwice, LnDefine, LnTwice>>
    /\ out[1] = <<"h", "b", "h", "X", "b", "X">>

\* the k-th pass of session d is at an `#undefine` line naming id, and no
\* later pass before the k2-th is at a `#define` naming it
UndefinedSince(d, k, k2, id) ==
    /\ k < k2
    /\ NameOf(LineAt(d, trace[d][k].at)) = Some(KwUndefine)
    /\ NextWord(SplitWhitespace(LineAt(d, trace[d][k].at)), 2) = Some(id)
    /\ \A j \in (k + 1)..(k2 - 1) :
           ~(/\ NameOf(LineAt(d, trace[d][j].at)) = Some(KwDefine)
             /\ NextWord(SplitWhitespace(LineAt(d, trace[d][j].at)), 2) = Some(id))

\* the pass at `#undefine id` leaves a table without id and with every other
\* entry as it was, appends nothing, moves to the next line and does not fail
UndefineRemoves ==
    \A d \in Sessions : \A k \in Visits(d) :
        LET v == trace[d][k]
            line == LineAt(d, v.at)
            id == NextWord(SplitWhitespace(line), 2)
        IN  (NameOf(line) = Some(KwUndefine) /\ IsSome(id))
            => /\ Appended(d, k) = << >>
               /\ IF k < Len(trace[d])
                  THEN LET w == trace[d][k + 1]
                       IN  /\ w.at = v.at + 1
                           /\ DOMAIN w.defs = DOMAIN v.defs \ {Unwrap(id)}
                           /\ \A x \in DOMAIN w.defs : w.defs[x] = v.defs[x]
                           /\ (Unwrap(id) \notin DOMAIN v.defs => w.defs = v.defs)
                  ELSE pc[d] \in {"run", "incr", "ok"}

\* every later line sees id as not defined
UndefineLasts ==
    \A d \in Sessions : \A k \in Visits(d) : \A k2 \in Visits(d) :
        LET w == trace[d][k2]
            line == LineAt(d, w.at)
        IN  UndefinedSince(d, k, k2, IdX)
            => /\ IdX \notin DOMAIN w.defs
               /\ IsText(line) => Appended(d, k2) = line
               /\ (NameOf(line) = Some(KwIfdef)
                   /\ NextWord(SplitWhitespace(line), 2) = Some(IdX)) => ~w.scan
               /\ (NameOf(line) = Some(KwIfundef)
                   /\ NextWord(SplitWhitespace(line), 2) = Some(IdX)) => w.scan

\* C13: `#undefine X` returns X to the not-defined state for all subsequent
\* lines (no substitution, not defined for #ifdef / #ifundef), and on an
\* absent X it changes nothing and raises no error.
C13_UndefineRestores == UndefineRemoves /\ UndefineLasts

\* C13 witness: X was defined with a payload, undefined, a line naming X came
\* out as written, and a second `#undefine X` found X absent and ran through.
C13_Witness ==
    /\ Depth = 1
    /\ pc[1] = "ok"
    /\ lines[1] = <<LnDefineVal, LnUndefine, LnText, LnUndefine>>
    /\ out[1] = LnText
    /\ defs[1] = EmptyMap

\* C14: the skip scan's u16 counter is never decremented (at #endif) or
\* reduced by one (at #else) while it is zero: a closer met at depth zero
\* ends the scan, with the counter as it was and no arithmetic fault.
C14_NoUnderflow ==
    [][(ScanAt({KwEndif, KwElse}) /\ height[Cur] = 0)
        => (/\ pc'[Cur] = "incr"
            /\ height'[Cur] = 0
            /\ index'[Cur] = index[Cur] + 1)]_vars

\* C15: after a conditional directive on the keep side (no skip scan) the
\* next line the main loop processes is the one right after the directive.
C15_KeepSideAdvancesByOne ==
    \A d \in Sessions : \A k \in Visits(d) :
        LET v == trace[d][k]
            line == LineAt(d, v.at)
        IN  (/\ IsOpener(line)
             /\ IsSome(NextWord(SplitWhitespace(line), 2))
             /\ ~v.scan
             /\ k < Len(trace[d]))
            => trace[d][k + 1].at = v.at + 1

ParentWaits ==
    \A d \in 1..(Depth - 1) :
        /\ pc[d] = "with"
        /\ NameOf(LineAt(d, index[d])) = Some(KwWith)
        /\ LastVisit(d).at = index[d]
        /\ out[d] = LastVisit(d).out

\* the step that ends a child which ran to Ok: the parent's output gains the
\* child's whole output at its end, and the parent goes on to the next line
ChildSpliced ==
    (Depth > 1 /\ pc[Depth] = "ok" /\ Depth' = Depth - 1)
    => /\ out'[Depth - 1] = out[Depth - 1] \o out[Depth]
       /\ index'[Depth - 1] = index[Depth - 1] + 1
       /\ pc'[Depth - 1] = "run"

\* the pass after a `#with` is at the next line, with an output that starts
\* with what the lines before the `#with` emitted
ResumesAfterWith ==
    \A d \in Sessions : \A k \in Visits(d) :
        LET v == trace[d][k]
            after == OutAfter(d, k)
        IN  (NameOf(LineAt(d, v.at)) = Some(KwWith) /\ k < Len(trace[d]))
            => /\ trace[d][k + 1].at = v.at + 1
               /\ Len(after) >= Len(v.out)
               /\ SubSeq(after, 1, Len(v.out)) = v.out

\* C17: the child of a `#with` runs to completion before the parent resumes;
\* its whole output is appended to the parent's after everything the lines
\* before the `#with` emitted and before anything the lines after it emit;
\* the parent continues with the line right after the `#with`.
C17_WithSplicesAtCallSite ==
    /\ [](ParentWaits /\ ResumesAfterWith)
    /\ [][ChildSpliced]_vars

\* C17 witness: `#define X h`, aX, `#with f`, aX ran through; the child's
\* output aXah stands between the two ah of the parent's own lines.
C17_Witness ==
    /\ Depth = 1
    /\ pc[1] = "ok"
    /\ lines[1] = <<LnDefineVal, LnText, LnWithFile, LnText>>
    /\ out[1] = <<"a", "h", "a", "X", "a", "h", "a", "h">>

\* every pass of the main loop either moves the cursor up by one or returns
\* an error
PassAdvances ==
    \A d \in Sessions :
        (d <= Len(trace') /\ trace'[d] # trace[d])
        => (index'[d] = index[d] + 1 \/ pc'[d] = "err")

\* the passes made so far are no more than the lines of the input
PassesBounded ==
    \A d \in Sessions :
        /\ Len(trace[d]) <= Len(lines[d])
        /\ index[d] <= Len(lines[d])

\* C18: on inputs of non-directive lines, #define and #undefine only, every
\* pass of the main loop strictly increases the cursor, there are at most
\* len(lines) passes, and a run that was called returns.
C18_MainLoopTerminates ==
    /\ []PassesBounded
    /\ [][PassAdvances]_vars
    /\ (pc[1] = "run") ~> (pc[1] \in {"ok", "err"})

\* C18 witness: a run over four lines returned Ok after four passes.
C18_Witness ==
    /\ Depth = 1
    /\ pc[1] = "ok"
    /\ lines[1] = <<LnText, LnDefineVal, LnUndefine, LnTwice>>
    /\ Len(trace[1]) = 4
    /\ index[1] = 4

\* s is a prefix of t
IsPrefix(s, t) == Len(s) <= Len(t) /\ SubSeq(t, 1, Len(s)) = s

\* no step takes anything away from the output of a session that lives on
OutputGrows ==
    \A d \in Sessions : d <= Len(out') => IsPrefix(out[d], out'[d])

\* the line as the table m expands it, for a table that holds at most X
ExpandedByX(line, m) ==
    IF IdX \in DOMAIN m /\ IsSome(m[IdX])
    THEN EachReplaced(line, IdX[1], Unwrap(m[IdX]))
    ELSE line

\* a pass at a directive line appends nothing, or for `#with` something
\* other than the line; a pass at a non-directive line appends its expansion
PassAppends ==
    \A d \in Sessions : \A k \in Visits(d) :
        LET v == trace[d][k]
            line == LineAt(d, v.at)
        IN  /\ IsPrefix(v.out, OutAfter(d, k))
            /\ (StartsWith(line, <<HASH>>) /\ NameOf(line) # Some(KwWith))
               => Appended(d, k) = << >>
            /\ NameOf(line) = Some(KwWith) => Appended(d, k) # line
            /\ (IsText(line) /\ DOMAIN v.defs \subseteq {IdX})
               => Appended(d, k) = ExpandedByX(line, v.defs)

\* C19: the output is append-only (its value before a step is a prefix of
\* its value after), a line starting with '#' is never itself appended, and
\* every non-directive line the main loop reaches is appended, after
\* substitution, exactly once.
C19_OutputAppendOnly ==
    /\ []PassAppends
    /\ [][OutputGrows]_vars

\* C19 witness: aX, `#define X h`, aX, `#undefine X` ran through and the
\* output is aX followed by ah.
C19_Witness ==
    /\ Depth = 1
    /\ pc[1] = "ok"
    /\ lines[1] = <<LnText, LnDefineVal, LnText, LnUndefine>>
    /\ out[1] = <<"a", "X", "a", "h">>

\* a session's table changes only in the public define call or in a pass of
\* its own main loop at a `#define` or `#undefine` line
DefsFrame ==
    \A d \in Sessions :
        (d <= Len(defs') /\ defs'[d] # defs[d])
        => /\ d = Cur
           /\ \/ pc[d] = "new"
              \/ /\ pc[d] = "run" /\ InRange
                 /\ NameOf(CurLine) \in {Some(KwDefine), Some(KwUndefine)}

\* a step of the skip scan changes neither a table nor an output
ScanFrame == InScan => (defs' = defs /\ out' = out)

\* the table of session d after its k-th pass
DefsAfter(d, k) == IF k < Len(trace[d]) THEN trace[d][k + 1].defs ELSE defs[d]

\* a pass that ran the skip scan leaves, during the scan and after it, the
\* table and the output it found
SkippedHasNoEffect ==
    \A d \in Sessions : \A k \in Visits(d) :
        trace[d][k].scan
        => /\ DefsAfter(d, k) = trace[d][k].defs
           /\ OutAfter(d, k) = trace[d][k].out

\* C20: only `#define` / `#undefine` dispatched by the main loop and the
\* public define call change the Definition Table; every other step leaves
\* it unchanged, and the skip scan leaves the output unchanged too, so a
\* `#define` or `#undefine` inside a skipped block has no effect.
C20_DefsAndScanFrame ==
    /\ [][DefsFrame /\ ScanFrame]_vars
    /\ []SkippedHasNoEffect

\* C20 witness: the scan started by `#ifundef X` stands on `#define X h`,
\* has looked at it, and the table and the output are still empty.
C20_Witness ==
    /\ Depth = 1
    /\ pc[1] = "scan"
    /\ Len(lines[1]) >= 2
    /\ LineAt(1, 0) = LnIfundef
    /\ index[1] = 1
    /\ LineAt(1, 1) = LnDefineVal
    /\ spins >= 1
    /\ defs[1] = EmptyMap
    /\ out[1] = << >>

====
